---- MODULE Spec2Model ----
(***************************************************************************)
(* Model of the AgentMail listener of openclaw-agentmail (src/index.ts):   *)
(* the module-level listener state (currentSocket, stopped,                *)
(* reconnectTimer), startListener / stopListener, every suspension point   *)
(* of connectWithBackoff, the socket callbacks it registers, and the       *)
(* classification done by handleEvent.                                     *)
(*                                                                         *)
(* Every invocation of connectWithBackoff that gets past its first         *)
(* `if (stopped) return` is one entry of `calls`; the socket it obtains    *)
(* (if any) is identified with the index of that entry, and so is the      *)
(* reconnect timer it schedules (an invocation schedules at most one:      *)
(* either in its catch block or in its close handler).                     *)
(***************************************************************************)
EXTENDS Integers, Sequences, FiniteSets, TLC

\* ------------------------------------------------------------------ bounds
MaxCalls  == 3   \* connectWithBackoff invocations that get past line 124
MaxStops  == 2   \* stopListener calls

NULL == 0        \* models null for currentSocket / reconnectTimer

VARIABLES
    stopped,         \* let stopped (line 85)
    currentSocket,   \* let currentSocket (line 84): NULL or the id of a socket
    reconnectTimer,  \* let reconnectTimer (line 86): NULL or the id of a timer
    calls,           \* the connectWithBackoff invocations and their sockets
    timers,          \* ids of the reconnect timers that are pending in the event loop
    phase,           \* host side: "idle", "running" (start called last), "stopped"
    stops,           \* number of stopListener calls so far
    last,            \* the frame received by the message callback that ran in
                     \* the latest step (NoFrame after any other step): its
                     \* socket, whether it was dropped (stopped) and what
                     \* handleEvent did with it
    probe            \* inputs and results of one evaluation of a function of
                     \* the listener (NoProbe while the listener itself runs)

vars == <<stopped, currentSocket, reconnectTimer, calls, timers,
          phase, stops, last, probe>>

\* ------------------------------------------------------------ invocations
\* Position of an invocation of connectWithBackoff / state of its socket:
\*   "sleep"     suspended in `await sleep(delay)`                 (line 131)
\*   "handshake" suspended in `await client.websockets.connect()`  (line 144)
\*   "pending"   connect resolved, handlers registered, socket not yet open
\*   "open"      the socket's open event has fired
\*   "closing"   close() was called on the socket, close event not yet fired
\*   "closed"    the socket's close event has fired
\*   "failed"    connect rejected, the catch block ran             (line 187)
\*   "aborted"   returned at `if (stopped) return` after the sleep (line 132)
Ids == 1..Len(calls)

\* Sessions that are open or pending-open (an awaited handshake, or a socket
\* that exists and has neither been closed nor asked to close).
Live == {c \in Ids : calls[c].pc \in {"handshake", "pending", "open"}}

\* Timers in the event loop that belong to the listener: the setTimeout of a
\* pending reconnect (lines 176, 191) and the setTimeout inside sleep (line 357).
SleepTimers == {c \in Ids : calls[c].pc = "sleep"}
PendingTimers == Cardinality(timers) + Cardinality(SleepTimers)

\* Room for one more invocation: every pending reconnect timer will need one.
Budget == Len(calls) + Cardinality(timers) < MaxCalls

\* ------------------------------------------------------------------- Init
NoFrame == [sock |-> NULL, type |-> "none", eventType |-> "none",
            dropped |-> FALSE, enq |-> 0]

NoProbe == [kind |-> "none"]

\* The listener before start: the initialisers of lines 84-86.
Idle ==
    /\ stopped = FALSE
    /\ currentSocket = NULL
    /\ reconnectTimer = NULL
    /\ calls = <<>>
    /\ timers = {}
    /\ phase = "idle"
    /\ stops = 0
    /\ last = NoFrame

Init ==
    /\ Idle
    /\ probe = NoProbe

\* ----------------------------------------------------- connectWithBackoff
NewCall(attempt, parent, pc) ==
    [attempt |-> attempt,   \* the `attempt` argument of this invocation
     pc      |-> pc,
     parent  |-> parent,    \* the invocation whose timer made this call (0: start)
     subs    |-> 0,         \* sendSubscribe calls made on this socket
     opened  |-> FALSE,     \* the open event has fired
     live    |-> FALSE,     \* the open event fired while stopped was false
     closes  |-> 0]         \* close() calls made on this socket

\* Entry of connectWithBackoff(api, cfg, attempt), lines 124-144, up to its
\* first suspension: it returns at once when stopped (stp); with attempt > 0
\* it suspends in sleep, otherwise it goes straight to the connect await.
ConnectWithBackoff(stp, attempt, parent) ==
    IF stp
    THEN calls
    ELSE Append(calls, NewCall(attempt, parent,
                               IF attempt > 0 THEN "sleep" ELSE "handshake"))

\* startListener, lines 108-111.
StartListener ==
    /\ phase # "running"
    /\ Budget
    /\ stopped' = FALSE
    /\ calls' = ConnectWithBackoff(FALSE, 0, 0)
    /\ phase' = "running"
    /\ UNCHANGED <<currentSocket, reconnectTimer, timers, stops>>
    /\ last' = NoFrame
    /\ UNCHANGED probe

\* socket.close() as stopListener calls it (lines 95-99): a socket that is
\* pending or open starts closing; on any other socket it has no effect
\* (an exception would be swallowed).
CloseSocket(c) ==
    [calls EXCEPT ![c].pc = IF @ \in {"pending", "open"} THEN "closing" ELSE @,
                  ![c].closes = @ + 1]

\* stopListener, lines 88-102.
StopListener ==
    /\ stops < MaxStops
    /\ stopped' = TRUE
    /\ timers' = IF reconnectTimer # NULL THEN timers \ {reconnectTimer} ELSE timers
    /\ reconnectTimer' = NULL
    /\ calls' = IF currentSocket # NULL THEN CloseSocket(currentSocket) ELSE calls
    /\ currentSocket' = NULL
    /\ phase' = "stopped"
    /\ stops' = stops + 1
    /\ last' = NoFrame
    /\ UNCHANGED probe

\* The (stopped) check after `await sleep(delay)`, line 132.
AfterSleepNoCheck(stp) == "handshake"
AfterSleep(stp) == IF stp THEN "aborted" ELSE "handshake"

\* The timer of sleep (line 357) fires and connectWithBackoff resumes at
\* line 132, then runs up to the connect await of line 144.
SleepDone(c) ==
    /\ calls[c].pc = "sleep"
    /\ calls' = [calls EXCEPT ![c].pc = AfterSleep(stopped)]
    /\ UNCHANGED <<stopped, currentSocket, reconnectTimer, timers,
                   phase, stops>>
    /\ last' = NoFrame
    /\ UNCHANGED probe

\* `await client.websockets.connect(...)` resolves: lines 144-185 run, the
\* socket becomes the current one and the four handlers are registered.
ConnectResolved(c) ==
    /\ calls[c].pc = "handshake"
    /\ currentSocket' = c
    /\ calls' = [calls EXCEPT ![c].pc = "pending"]
    /\ UNCHANGED <<stopped, reconnectTimer, timers, phase, stops>>
    /\ last' = NoFrame
    /\ UNCHANGED probe

\* Whether the catch block schedules a reconnect, line 190.
CatchNeverSchedules(stp) == FALSE
CatchSchedules(stp) == ~stp

\* The connect attempt throws or rejects: the catch block, lines 187-196.
ConnectRejected(c) ==
    /\ calls[c].pc = "handshake"
    /\ stopped \/ Budget
    /\ currentSocket' = NULL
    /\ calls' = [calls EXCEPT ![c].pc = "failed"]
    /\ IF CatchSchedules(stopped)
       THEN /\ reconnectTimer' = c
            /\ timers' = timers \cup {c}
       ELSE UNCHANGED <<reconnectTimer, timers>>
    /\ UNCHANGED <<stopped, phase, stops>>
    /\ last' = NoFrame
    /\ UNCHANGED probe

\* Number of subscribe requests the open handler sends, lines 147-162, on a
\* socket obtained by an invocation with the given attempt.
SubscribeFirstConnectOnly(stp, attempt) == IF stp \/ attempt > 0 THEN 0 ELSE 1
SubscribeOnOpen(stp, attempt) == IF stp THEN 0 ELSE 1

\* The socket's open event: the handler of lines 147-162.
OpenEvent(c) ==
    /\ calls[c].pc = "pending"
    /\ calls' = [calls EXCEPT ![c].pc = "open",
                              ![c].opened = TRUE,
                              ![c].live = ~stopped,
                              ![c].subs = @ + SubscribeOnOpen(stopped, calls[c].attempt)]
    /\ UNCHANGED <<stopped, currentSocket, reconnectTimer, timers,
                   phase, stops>>
    /\ last' = NoFrame
    /\ UNCHANGED probe

\* State of a socket after its close event. connect is called with
\* reconnectAttempts: 0 (lines 138-144), so the SDK does not reopen it.
SdkReconnects == "pending"
SdkAfterClose == "closed"

\* The socket's close event: the handler of lines 169-180.
CloseEvent(c) ==
    /\ calls[c].pc \in {"pending", "open", "closing"}
    /\ stopped \/ Budget
    /\ calls' = [calls EXCEPT ![c].pc = SdkAfterClose]
    /\ IF stopped
       THEN UNCHANGED <<currentSocket, reconnectTimer, timers>>
       ELSE /\ currentSocket' = NULL
            /\ reconnectTimer' = c
            /\ timers' = timers \cup {c}
    /\ UNCHANGED <<stopped, phase, stops>>
    /\ last' = NoFrame
    /\ UNCHANGED probe

\* A reconnect timer fires: the callbacks of lines 176-179 and 191-194, which
\* call connectWithBackoff(api, cfg, attempt + 1).
TimerFire(k) ==
    /\ k \in timers
    /\ timers' = timers \ {k}
    /\ reconnectTimer' = NULL
    /\ calls' = ConnectWithBackoff(stopped, calls[k].attempt + 1, k)
    /\ UNCHANGED <<stopped, currentSocket, phase, stops>>
    /\ last' = NoFrame
    /\ UNCHANGED probe

\* ------------------------------------------------------------ handleEvent
Frames ==
    {[type |-> "subscribed", eventType |-> "none"],
     [type |-> "event",      eventType |-> "message.received"],
     [type |-> "event",      eventType |-> "message.delivered"],
     [type |-> "error",      eventType |-> "none"],
     [type |-> "pong",       eventType |-> "none"]}

\* handleEvent, lines 214-275: what it does with one frame.
\*   enq: number of calls of api.runtime.system.enqueueSystemEvent
EnqueueEveryEvent(f) ==
    [enq |-> IF f.type = "event" THEN 1 ELSE 0]
handleEvent(f) ==
    IF f.type = "subscribed" THEN [enq |-> 0]
    ELSE IF f.type = "event"
         THEN IF f.eventType # "message.received"
              THEN [enq |-> 0]
              ELSE [enq |-> 1]
         ELSE [enq |-> 0]

\* The socket's message event: the handler of lines 164-167. A frame arrives
\* on an open socket, or on one that was open when close() was called and has
\* not yet had its close event (a frame already on its way).
MessageEvent(c, f) ==
    /\ \/ calls[c].pc = "open"
       \/ calls[c].pc = "closing" /\ calls[c].opened
    /\ last' = IF stopped
               THEN [sock |-> c, type |-> f.type, eventType |-> f.eventType,
                     dropped |-> TRUE, enq |-> 0]
               ELSE [sock |-> c, type |-> f.type, eventType |-> f.eventType,
                     dropped |-> FALSE, enq |-> handleEvent(f).enq]
    /\ UNCHANGED <<stopped, currentSocket, reconnectTimer, calls, timers,
                   phase, stops, probe>>

\* ------------------------------------------------------------------- Next
\* The steps of the connection machinery: start, stop, and the continuations
\* and callbacks of connectWithBackoff other than the message callback.
Lifecycle ==
    \/ StartListener
    \/ StopListener
    \/ \E c \in Ids : SleepDone(c)
    \/ \E c \in Ids : ConnectResolved(c)
    \/ \E c \in Ids : ConnectRejected(c)
    \/ \E c \in Ids : OpenEvent(c)
    \/ \E c \in Ids : CloseEvent(c)
    \/ \E k \in timers : TimerFire(k)

Next ==
    \/ Lifecycle
    \/ \E c \in Ids : \E f \in Frames : MessageEvent(c, f)

Spec == Init /\ [][Next]_vars

\* The connection machinery alone, with the event loop running the callback
\* of every pending timer: a backoff sleep ends (line 357) and a scheduled
\* reconnect fires (lines 176, 191). The message callback writes only `last`,
\* which no step of Lifecycle reads.
FairSpec ==
    /\ Init
    /\ [][Lifecycle]_vars
    /\ WF_vars(\E c \in Ids : SleepDone(c))
    /\ WF_vars(\E k \in timers : TimerFire(k))

\* ------------------------------------------------- strings and optionals
\* A string is a sequence of one-character strings; an optional value is
\* Undefined or Str(s). `??` (lines 233-236) takes its right operand only when
\* the left one is null or undefined; `||` would also take it for "".
Undefined == [def |-> FALSE, v |-> <<>>]
Str(s) == [def |-> TRUE, v |-> s]

NullishCoalesce(x, y) == IF x.def THEN x ELSE y
FalsyCoalesce(x, y) == IF x.def /\ x.v # <<>> THEN x ELSE y

\* Strings over the alphabet A of length at most n.
RECURSIVE StringsUpTo(_, _)
StringsUpTo(A, n) ==
    IF n = 0 THEN {<<>>}
    ELSE LET shorter == StringsUpTo(A, n - 1)
         IN  shorter \cup {Append(s, a) : s \in shorter, a \in A}

\* ---------------------------------------------------------- the dedup key
MaxIdLen == 2    \* length of the identifiers a frame carries

\* "unknown", the literal of line 236, and "agentmail:", that of line 254.
Unknown == <<"u", "n", "k", "n", "o", "w", "n">>
KeyPrefix == <<"a", "g", "e", "n", "t", "m", "a", "i", "l", ":">>

\* const messageId = msg.messageId ?? msgEvent.eventId ?? "unknown", line 236.
MessageIdWithOr(f) ==
    FalsyCoalesce(f.messageId, FalsyCoalesce(f.eventId, Str(Unknown))).v
MessageId(f) ==
    NullishCoalesce(f.messageId, NullishCoalesce(f.eventId, Str(Unknown))).v

\* contextKey: `agentmail:${messageId}`, line 254.
ContextKey(f) == KeyPrefix \o MessageId(f)

\* The identifiers of a message.received frame: absent, any short string
\* (the empty one included), or the string "unknown" itself.
IdValues ==
    {Undefined, Str(Unknown)} \cup {Str(s) : s \in StringsUpTo({"a", "b"}, MaxIdLen)}
IdFrames == [messageId : IdValues, eventId : IdValues]

\* Two message.received frames are handed to handleEvent, which computes the
\* contextKey of each (lines 236, 254).
KeyInit ==
    /\ Idle
    /\ \E f1 \in IdFrames, f2 \in IdFrames :
           probe = [kind |-> "key", done |-> FALSE, f1 |-> f1, f2 |-> f2,
                    k1 |-> <<>>, k2 |-> <<>>]

KeyApply ==
    /\ probe.kind = "key"
    /\ ~probe.done
    /\ probe' = [probe EXCEPT !.done = TRUE,
                              !.k1 = ContextKey(probe.f1),
                              !.k2 = ContextKey(probe.f2)]
    /\ UNCHANGED <<stopped, currentSocket, reconnectTimer, calls, timers,
                   phase, stops, last>>

KeySpec == KeyInit /\ [][KeyApply]_vars

\* ------------------------------------------------ dispatch and wakeAgent
\* cfg.wake as the plugin configuration gives it (line 51): absent, one of
\* the three modes, or any other string.
RawWakeModes == {"undefined", "tools-invoke", "hooks", "off", "other"}

\* const wakeMode = ..., line 62, and `cfg.wake ?? "tools-invoke"`, line 259.
WakeModeHooksOnly(raw) == IF raw = "hooks" THEN raw ELSE "tools-invoke"
WakeModeOf(raw) == IF raw = "hooks" \/ raw = "off" THEN raw ELSE "tools-invoke"

\* What loadConfig returns (line 284), as far as wakeAgent reads it: whether
\* gateway.auth.token and hooks.token are configured.
GatewayConfigs == [gatewayToken : BOOLEAN, hooksToken : BOOLEAN]

\* wakeAgent, lines 281-338, up to its await of fetch: the number of HTTP
\* POSTs it issues and the path they go to.
NoWake == [posts |-> 0, url |-> "none"]
WakeAgentAlwaysPosts(mode, gw) ==
    IF mode = "hooks" THEN [posts |-> 1, url |-> "/hooks/wake"]
    ELSE [posts |-> 1, url |-> "/tools/invoke"]
WakeAgent(mode, gw) ==
    IF mode = "off" THEN NoWake
    ELSE IF mode = "hooks"
         THEN IF ~gw.hooksToken THEN NoWake
              ELSE [posts |-> 1, url |-> "/hooks/wake"]
         ELSE IF ~gw.gatewayToken THEN NoWake
              ELSE [posts |-> 1, url |-> "/tools/invoke"]

\* The try block of handleEvent, lines 251-264, for a message.received
\* frame: enqueueSystemEvent is called; if it throws (thr) the catch block
\* logs and wakeAgent is not reached, otherwise wakeAgent is called.
WakeEvenIfEnqueueThrows(mode, gw, thr) == WakeAgent(mode, gw)
EnqueueThenWake(mode, gw, thr) == IF thr THEN NoWake ELSE WakeAgent(mode, gw)

\* The check of line 165: a frame is dropped when stopped is set.
DropNever(stp) == FALSE
DropFrame(stp) == stp

\* The plugin configuration and the gateway configuration of one run: cfg is
\* fixed at registration (line 51) and loadConfig (line 284) reads the host's
\* settings.
DispatchInit ==
    /\ Idle
    /\ \E raw \in RawWakeModes, gw \in GatewayConfigs :
          probe = [kind |-> "cfg", wake |-> raw, gw |-> gw]

\* The socket's message event with everything handleEvent and wakeAgent do
\* synchronously (lines 164-167, 214-275, 281-332), for a frame f and an
\* enqueueSystemEvent that throws or not (thr).
\*   threw: enqueueSystemEvent was called and threw
\*   posts, url: the HTTP POSTs issued
\*   wake: "pending" while the fetch of wakeAgent is awaited
Dispatch(c, f, thr) ==
    /\ probe.kind = "cfg"
    /\ \/ calls[c].pc = "open"
       \/ calls[c].pc = "closing" /\ calls[c].opened
    /\ LET dropped == DropFrame(stopped)
           enq     == IF dropped THEN 0 ELSE handleEvent(f).enq
           wake    == IF enq = 0 THEN NoWake
                      ELSE EnqueueThenWake(WakeModeOf(probe.wake), probe.gw, thr)
       IN  last' = [sock |-> c, type |-> f.type, eventType |-> f.eventType,
                    dropped |-> dropped, enq |-> enq,
                    threw |-> (enq = 1 /\ thr),
                    posts |-> wake.posts, url |-> wake.url,
                    wake |-> IF wake.posts > 0 THEN "pending" ELSE "none"]
    /\ UNCHANGED <<stopped, currentSocket, reconnectTimer, calls, timers,
                   phase, stops, probe>>

\* How the awaited fetch ends: a 2xx response, another status, or a rejection.
WakeOutcomes == {"ok", "status500", "transport"}

\* What becomes of the promise of wakeAgent: resolved, or rejected (lines
\* 303-306, 333-336, or fetch itself) and handled by the .catch of lines
\* 259-261, which logs a warning.
WakeUncaught(outcome) == IF outcome = "ok" THEN "done" ELSE "raised"
WakeCatch(outcome) == IF outcome = "ok" THEN "done" ELSE "warned"

\* The fetch of wakeAgent settles and wakeAgent finishes, lines 303-308 and
\* 333-337, with the .catch of lines 259-261.
WakeSettled(outcome) ==
    /\ last.type # "none"
    /\ last.wake = "pending"
    /\ last' = [last EXCEPT !.wake = WakeCatch(outcome)]
    /\ UNCHANGED <<stopped, currentSocket, reconnectTimer, calls, timers,
                   phase, stops, probe>>

\* The message path in full on sockets obtained by start: start, stop, the
\* resolution of connect and the open event bring about every combination of
\* stopped and of a socket that delivers frames, which is all Dispatch reads.
DispatchNext ==
    \/ StartListener
    \/ StopListener
    \/ \E c \in Ids : ConnectResolved(c)
    \/ \E c \in Ids : OpenEvent(c)
    \/ \E c \in Ids : \E f \in Frames : \E thr \in BOOLEAN : Dispatch(c, f, thr)
    \/ \E outcome \in WakeOutcomes : WakeSettled(outcome)

DispatchSpec == DispatchInit /\ [][DispatchNext]_vars

\* ---------------------------------------------------------------- preview
\* The body preview of line 235:
\*   (msg.preview ?? msg.text ?? "").slice(0, 200).replace(/\s+/g, " ").trim()
PreviewLimit == 200

\* Characters that \s matches and trim() removes, among those of the model.
IsSpace(ch) == ch \in {" ", "\n", "\t"}

\* s.slice(0, n)
Slice(s, n) == SubSeq(s, 1, IF Len(s) < n THEN Len(s) ELSE n)

\* s.replace(/\s+/g, " "): every maximal run of whitespace becomes one space.
\* (computed by halving the range lo..hi of positions of s)
RECURSIVE ReplaceRange(_, _, _)
ReplaceRange(s, lo, hi) ==
    IF lo > hi THEN <<>>
    ELSE IF lo = hi
         THEN IF ~IsSpace(s[lo]) THEN <<s[lo]>>
              ELSE IF lo > 1 /\ IsSpace(s[lo - 1]) THEN <<>>
              ELSE <<" ">>
         ELSE LET mid == (lo + hi) \div 2
              IN  ReplaceRange(s, lo, mid) \o ReplaceRange(s, mid + 1, hi)
ReplaceWhitespace(s) == ReplaceRange(s, 1, Len(s))

\* s.trim()
Trim(s) ==
    LET solid == {i \in 1..Len(s) : ~IsSpace(s[i])}
    IN  IF solid = {} THEN <<>>
        ELSE SubSeq(s, CHOOSE i \in solid : \A j \in solid : i <= j,
                       CHOOSE i \in solid : \A j \in solid : j <= i)

\* The text the preview is taken from: msg.preview ?? msg.text ?? "".
PreviewSource(msg) ==
    NullishCoalesce(msg.preview, NullishCoalesce(msg.text, Str(<<>>))).v

PreviewCollapseFirst(msg) ==
    Slice(Trim(ReplaceWhitespace(PreviewSource(msg))), PreviewLimit)
Preview(msg) ==
    Trim(ReplaceWhitespace(Slice(PreviewSource(msg), PreviewLimit)))

\* Bodies: a short edge, a run of "b" that ends within MaxEdge characters of
\* the limit or beyond it, a second short edge and a closing run, so that
\* whitespace falls at the start, at the end and on either side of the limit;
\* and short bodies made of two edges.
MaxEdge == 2
Rep(ch, n) == [i \in 1..n |-> ch]
Edges == StringsUpTo({"a", " ", "\n"}, MaxEdge)
Bodies ==
    {p \o Rep("b", k) \o q \o Rep("b", 2 * MaxEdge + 2) :
        p \in Edges, q \in Edges,
        k \in (PreviewLimit - 2 * MaxEdge)..(PreviewLimit + 1)}
    \cup {p \o q : p \in Edges, q \in Edges}
PreviewMessages ==
    [preview : {Undefined, Str(<<>>), Str(<<"a", " ", " ", "a">>)},
     text    : {Undefined} \cup {Str(b) : b \in Bodies}]

PreviewInit ==
    /\ Idle
    /\ \E msg \in PreviewMessages :
          probe = [kind |-> "preview", done |-> FALSE, msg |-> msg,
                   out |-> <<>>]

PreviewApply ==
    /\ probe.kind = "preview"
    /\ ~probe.done
    /\ probe' = [probe EXCEPT !.done = TRUE, !.out = Preview(probe.msg)]
    /\ UNCHANGED <<stopped, currentSocket, reconnectTimer, calls, timers,
                   phase, stops, last>>

PreviewSpec == PreviewInit /\ [][PreviewApply]_vars

\* ----------------------------------------------------------- backoffDelay
MIN_DELAY_MS == 1000
MAX_DELAY_MS == 60000
BACKOFF_FACTOR == 2

\* Math.pow(2, e) is Infinity from this exponent on (the largest finite
\* double is below 2^1024).
DoubleMaxExponent == 1024

\* A JavaScript number as far as backoffDelay produces one: an integer, or
\* NaN.
Num(n) == [kind |-> "number", v |-> n]
NaN == [kind |-> "NaN", v |-> 0]

\* Math.random() is drawn from a grid: Math.random() * 2 - 1 is k / JitterSteps
\* for k in -JitterSteps .. JitterSteps - 1.
JitterSteps == 5
JitterDraws == (0 - JitterSteps)..(JitterSteps - 1)

\* Math.round(p / q) for p >= 0 and q > 0: the integer nearest to p / q, a
\* half rounding up.
Round(p, q) == (2 * p + q) \div (2 * q)

\* backoffDelay, lines 348-354, for the draw k of Math.random().
\* While Math.pow is finite, delay + jitter is delay * (1 + k / (10 *
\* JitterSteps)), rounded and clamped by Math.min. When Math.pow is Infinity,
\* delay is Infinity and jitter is Infinity * 0.1 * (k / JitterSteps): Infinity
\* for k > 0, NaN for k = 0, -Infinity for k < 0; delay + jitter is Infinity in
\* the first case, where Math.min gives MAX_DELAY_MS, and NaN in the other
\* two (Infinity + -Infinity is NaN), where Math.round and Math.min give NaN.
backoffDelay(attempt, k) ==
    IF attempt <= 0 THEN Num(0)
    ELSE IF attempt - 1 >= DoubleMaxExponent
         THEN IF k > 0 THEN Num(MAX_DELAY_MS) ELSE NaN
         ELSE LET delay   == MIN_DELAY_MS * BACKOFF_FACTOR ^ (attempt - 1)
                  rounded == Round(delay * (10 * JitterSteps + k),
                                   10 * JitterSteps)
              IN  Num(IF rounded > MAX_DELAY_MS THEN MAX_DELAY_MS
                      ELSE rounded)

\* Attempts: the first few, and the first one whose power of two overflows.
\* attempt grows by one with every session end and connect failure (lines
\* 178, 193).
MaxAttempt == 9
Attempts == (0..MaxAttempt) \cup {DoubleMaxExponent + 1}

BackoffInit ==
    /\ Idle
    /\ \E attempt \in Attempts, k \in JitterDraws :
          probe = [kind |-> "backoff", done |-> FALSE, attempt |-> attempt,
                   k |-> k, out |-> Num(0)]

BackoffApply ==
    /\ probe.kind = "backoff"
    /\ ~probe.done
    /\ probe' = [probe EXCEPT !.done = TRUE,
                              !.out = backoffDelay(probe.attempt, probe.k)]
    /\ UNCHANGED <<stopped, currentSocket, reconnectTimer, calls, timers,
                   phase, stops, last>>

BackoffSpec == BackoffInit /\ [][BackoffApply]_vars

\* ----------------------------------------------------------------- claims
\* No socket is waiting for anything: no sleep, no awaited connect, no socket
\* between creation and open or between close() and its close event, and no
\* reconnect timer.
Settled ==
    /\ timers = {}
    /\ \A c \in Ids : calls[c].pc \notin {"sleep", "handshake", "pending", "closing"}

\* C1: with one start and no stop, whatever the order of handshake
\* completions, connect failures and close events, at most one session is
\* open or pending-open.
C1_SingleSessionWithoutStop == stops = 0 => Cardinality(Live) <= 1

\* A session is open on the third invocation (attempt 2), no stop so far.
C1_Witness ==
    /\ stops = 0
    /\ \E c \in Ids : calls[c].pc = "open" /\ calls[c].attempt >= 2

\* C2: across any sequence of start and stop calls at most one session is
\* open or pending-open at every instant.
C2_SingleSession == Cardinality(Live) <= 1

\* C3: while stopped stays set (stop was invoked, start not invoked again) no
\* step begins a connection attempt (no new invocation gets past its entry
\* check, none reaches the connect call) and none schedules a timer.
C3_NoReconnectAfterStop ==
    [][(stopped /\ stopped') =>
          /\ Len(calls') = Len(calls)
          /\ \A c \in Ids : calls'[c].pc = "handshake" => calls[c].pc = "handshake"
          /\ \A c \in Ids : calls'[c].pc = "sleep" => calls[c].pc = "sleep"
          /\ timers' \subseteq timers]_vars

\* Stop arrived during a backoff sleep of one invocation and during the
\* connect await of another, which then failed; both have settled.
C3_Witness ==
    /\ stopped
    /\ Settled
    /\ \E c \in Ids : calls[c].pc = "aborted"
    /\ \E c \in Ids : calls[c].pc = "failed" /\ c \notin timers /\ c = Len(calls)

\* C4: after stop (with no later start), once every in-flight operation has
\* settled, no session is open.
C4_StopClosesSession ==
    (stopped /\ Settled) => \A c \in Ids : calls[c].pc # "open"

\* C5: immediately after stop returns, no timer belonging to the listener
\* (reconnect timer or backoff sleep) is still pending.
C5_StopCancelsWait == [][StopListener => PendingTimers' = 0]_vars

\* C6: a stop made before any start, or right after another stop, leaves no
\* pending timer and an empty session handle, and no socket has been closed
\* more than once.
C6_StopIdempotent ==
    [][(StopListener /\ phase \in {"idle", "stopped"}) =>
          /\ PendingTimers' = 0
          /\ currentSocket' = NULL
          /\ reconnectTimer' = NULL
          /\ \A c \in Ids : calls'[c].closes <= 1]_vars

\* C7: the connection attempt that follows the close of a session that had
\* opened successfully is made with attempt = 1.
C7_AttemptResetByOpen ==
    \A c \in Ids :
        (calls[c].parent # 0 /\ calls[calls[c].parent].live
            /\ calls[calls[c].parent].pc = "closed")
        => calls[c].attempt = 1

\* C8: whenever a session has ended (close event or connect failure) and stop
\* has not been invoked, then, unless stop is invoked, a connection attempt
\* with attempt + 1 is eventually made (the invocation made by that session's
\* reconnect timer reaches the connect call).
C8_ReconnectLiveness ==
    \A k \in 1..(MaxCalls - 1) :
        (k \in Ids /\ calls[k].pc \in {"closed", "failed"} /\ stops = 0)
        ~> (\/ stops > 0
            \/ \E c \in Ids : /\ calls[c].parent = k
                              /\ calls[c].attempt = calls[k].attempt + 1
                              /\ calls[c].pc \notin {"sleep", "aborted"})

\* The attempt that follows a failed connect has reached the connect call.
C8_Witness ==
    /\ stops = 0
    /\ \E c \in Ids : /\ calls[c].parent # 0
                      /\ calls[calls[c].parent].pc = "failed"
                      /\ calls[c].attempt = calls[calls[c].parent].attempt + 1
                      /\ calls[c].pc = "handshake"

\* C9: a session whose open event fired while stopped was false has had
\* exactly one subscribe request sent, on the initial connect and on every
\* reconnect, and it was sent by the time the session is open, hence before
\* any frame of that session is handed to handleEvent; no session has more
\* than one sent, and none before its open event.
C9_SubscribeOnOpen ==
    /\ \A c \in Ids :
        /\ calls[c].subs <= 1
        /\ calls[c].live => calls[c].subs = 1
        /\ ~calls[c].opened => calls[c].subs = 0
    /\ (last.sock # NULL /\ ~last.dropped /\ calls[last.sock].live)
           => calls[last.sock].subs = 1

\* A reconnected session has subscribed and then had a frame dispatched.
C9_Witness ==
    /\ last.sock # NULL
    /\ ~last.dropped
    /\ calls[last.sock].attempt >= 1
    /\ calls[last.sock].live
    /\ calls[last.sock].subs = 1

\* C10 (as stated): for every inbound frame, enqueue is called once if it is an
\* "event" frame of inner type "message.received" and never otherwise.
C10_ClassificationEveryFrame ==
    last.type # "none" =>
        last.enq = IF last.type = "event" /\ last.eventType = "message.received"
                   THEN 1 ELSE 0

\* C10 (amended): for every inbound frame that arrives while stopped is false,
\* enqueue is called once if it is an "event" frame of inner type
\* "message.received" and never otherwise; for a frame that arrives while
\* stopped is set it is never called.
C10_Classification ==
    last.type # "none" =>
        last.enq = IF /\ ~last.dropped
                      /\ last.type = "event"
                      /\ last.eventType = "message.received"
                   THEN 1 ELSE 0

\* A message.received frame was dispatched and enqueued once.
C10_Witness ==
    /\ last.type = "event"
    /\ last.eventType = "message.received"
    /\ ~last.dropped
    /\ last.enq = 1

\* The identifier the key is built from, as the claim states it: the message
\* id, else the frame's event id, else "unknown".
C11_IdOf(f) ==
    IF f.messageId.def THEN f.messageId.v
    ELSE IF f.eventId.def THEN f.eventId.v
    ELSE Unknown

\* C11: the dedup key is "agentmail:" followed by the message id, else the
\* frame's event id, else "unknown"; two frames carrying the same message id
\* get the same key, two frames carrying different message ids get different
\* keys, and so do two frames without message id carrying different event ids.
C11_DedupKey ==
    (probe.kind = "key" /\ probe.done) =>
        LET f1 == probe.f1
            f2 == probe.f2
        IN  /\ probe.k1 = KeyPrefix \o C11_IdOf(f1)
            /\ probe.k2 = KeyPrefix \o C11_IdOf(f2)
            /\ (f1.messageId.def /\ f2.messageId.def) =>
                   ((probe.k1 = probe.k2) <=> (f1.messageId.v = f2.messageId.v))
            /\ (/\ ~f1.messageId.def /\ ~f2.messageId.def
                /\ f1.eventId.def /\ f2.eventId.def) =>
                   ((probe.k1 = probe.k2) <=> (f1.eventId.v = f2.eventId.v))

\* Keys were computed for an empty message id and for a message id equal to
\* the other frame's event id: different message ids, different keys.
C11_Witness ==
    /\ probe.kind = "key"
    /\ probe.done
    /\ probe.f1.messageId = Str(<<>>)
    /\ probe.f1.eventId = Str(<<"a">>)
    /\ probe.f2.messageId = Str(<<"a">>)
    /\ probe.k1 # probe.k2

\* The frame last dispatched is an "event" frame of type message.received.
Received == last.type = "event" /\ last.eventType = "message.received"

\* The frame last dispatched was handed to enqueueSystemEvent, which returned.
Enqueued == Received /\ last.enq = 1 /\ ~last.threw

\* The configured wake mode is tools-invoke, named or by default.
C12_ToolsInvoke == probe.kind = "cfg" /\ probe.wake \notin {"hooks", "off"}

\* C12 as stated: in wake mode tools-invoke every enqueued message.received
\* event causes exactly one POST to /tools/invoke, whatever the gateway
\* configuration is.
C12_OnePostAnyGateway ==
    (C12_ToolsInvoke /\ Enqueued) =>
        (last.posts = 1 /\ last.url = "/tools/invoke")

\* C12, amended: in wake mode tools-invoke every enqueued message.received
\* event causes exactly one POST to /tools/invoke when gateway.auth.token is
\* configured and no HTTP call when it is not; the count stays what it is
\* however the call ends (no retry).
C12_OnePostWithToken ==
    (C12_ToolsInvoke /\ Enqueued) =>
        IF probe.gw.gatewayToken
        THEN last.posts = 1 /\ last.url = "/tools/invoke"
        ELSE last.posts = 0 /\ last.wake = "none"

\* The POST to /tools/invoke of an enqueued event failed, and it is still
\* the only one.
C12_Witness ==
    /\ C12_ToolsInvoke
    /\ Enqueued
    /\ last.wake = "warned"
    /\ last.posts = 1

\* C13: in wake mode off no HTTP call is made for any frame, and a
\* message.received frame that is dispatched is still handed to
\* enqueueSystemEvent exactly once.
C13_OffNoHttp ==
    (probe.kind = "cfg" /\ probe.wake = "off" /\ last.type # "none") =>
        /\ last.posts = 0
        /\ last.wake = "none"
        /\ (Received /\ ~stopped) => last.enq = 1

\* Wake mode off, a gateway token configured, and a message.received frame
\* was enqueued.
C13_Witness ==
    /\ probe.kind = "cfg"
    /\ probe.wake = "off"
    /\ probe.gw.gatewayToken
    /\ Enqueued
    /\ last.posts = 0

\* C14: a wake is started only for a frame whose enqueueSystemEvent call has
\* returned; a wake that fails (a non-2xx status or a transport failure) ends
\* in a logged warning, not in an error that escapes, leaves the enqueue
\* count and the POST count of the frame as they were, and leaves stopped,
\* currentSocket, reconnectTimer, the sockets and the timers unchanged.
C14_WakeIsolation ==
    /\ []((last.type # "none" /\ last.posts > 0) => Enqueued)
    /\ [][(\E outcome \in {"status500", "transport"} : WakeSettled(outcome)) =>
            /\ last'.wake = "warned"
            /\ last'.enq = last.enq
            /\ last'.posts = last.posts
            /\ UNCHANGED <<stopped, currentSocket, reconnectTimer, calls,
                           timers>>]_vars

\* A wake through the hooks endpoint failed while a session is current.
C14_Witness ==
    /\ probe.kind = "cfg"
    /\ probe.wake = "hooks"
    /\ Enqueued
    /\ last.wake = "warned"
    /\ currentSocket # NULL

\* C15: when enqueueSystemEvent throws for a message.received frame, it was
\* called once, no wake is sent for the frame, the socket stays as it was and
\* still delivers frames, and stopped, currentSocket, reconnectTimer and the
\* timers are unchanged (no reconnect is scheduled).
C15_EnqueueThrowContained ==
    [][\A c \in Ids :
          (/\ ~stopped
           /\ Dispatch(c, [type |-> "event", eventType |-> "message.received"],
                       TRUE)) =>
              /\ last'.enq = 1
              /\ last'.threw
              /\ last'.posts = 0
              /\ last'.wake = "none"
              /\ UNCHANGED <<stopped, currentSocket, reconnectTimer, calls,
                             timers>>
              /\ \/ calls'[c].pc = "open"
                 \/ calls'[c].pc = "closing" /\ calls'[c].opened]_vars

\* enqueueSystemEvent threw in tools-invoke mode with a gateway token, on an
\* open socket.
C15_Witness ==
    /\ C12_ToolsInvoke
    /\ probe.gw.gatewayToken
    /\ Received
    /\ last.threw
    /\ last.posts = 0
    /\ calls[last.sock].pc = "open"

\* C16: a frame that arrives on any socket while stopped is set is dropped:
\* enqueueSystemEvent is not called and no HTTP call is made.
C16_DroppedWhileStopped ==
    (stopped /\ last.type # "none") =>
        /\ last.dropped
        /\ last.enq = 0
        /\ last.posts = 0

\* A message.received frame arrived while stopped was set, with a wake mode
\* and a gateway configuration under which it would have been announced.
C16_Witness ==
    /\ stopped
    /\ C12_ToolsInvoke
    /\ probe.gw.gatewayToken
    /\ Received
    /\ last.enq = 0

\* A string with no whitespace at either end, no whitespace other than the
\* space, and no two spaces in a row.
C17_Normal(s) ==
    /\ \A i \in 1..Len(s) : IsSpace(s[i]) => s[i] = " "
    /\ \A i \in 1..(Len(s) - 1) : ~(IsSpace(s[i]) /\ IsSpace(s[i + 1]))
    /\ s # <<>> => (~IsSpace(s[1]) /\ ~IsSpace(s[Len(s)]))

\* The characters of s that are not whitespace, in order.
C17_Solid(s) == SelectSeq(s, LAMBDA ch : ~IsSpace(ch))

\* A preview was derived for a message without preview field whose body is
\* longer than the limit.
C17_LongBody ==
    /\ probe.kind = "preview"
    /\ probe.done
    /\ ~probe.msg.preview.def
    /\ probe.msg.text.def
    /\ Len(probe.msg.text.v) > PreviewLimit

\* C17 as stated: for a body longer than the limit and no preview field, the
\* preview is the first 200 characters of the body after its whitespace runs
\* were collapsed and it was trimmed.
C17_TruncatedCollapsedBody ==
    C17_LongBody =>
        probe.out = Slice(Trim(ReplaceWhitespace(probe.msg.text.v)),
                          PreviewLimit)

\* C17, amended: for a body longer than the limit and no preview field, the
\* preview is what collapsing and trimming make of the first 200 characters
\* of the body: it is at most 200 characters long, has single spaces only and
\* none at its ends, has the non-whitespace characters of the body's first
\* 200 characters, with a space exactly where that prefix has whitespace
\* between two of them; it is that prefix itself when the prefix is already
\* in this form.
C17_CollapsedTruncatedBody ==
    C17_LongBody =>
        LET head == SubSeq(probe.msg.text.v, 1, PreviewLimit)
            out  == probe.out
        IN  /\ Len(out) <= PreviewLimit
            /\ C17_Normal(out)
            /\ C17_Solid(out) = C17_Solid(head)
            /\ Len(out) - Len(C17_Solid(out)) =
                   Cardinality({i \in 2..PreviewLimit :
                       /\ ~IsSpace(head[i])
                       /\ IsSpace(head[i - 1])
                       /\ \E j \in 1..(i - 1) : ~IsSpace(head[j])})
            /\ C17_Normal(head) => out = head

\* A body longer than the limit with a whitespace run before the limit: the
\* preview is shorter than the limit.
C17_Witness ==
    /\ C17_LongBody
    /\ \E i \in 1..(PreviewLimit - 1) :
          IsSpace(probe.msg.text.v[i]) /\ IsSpace(probe.msg.text.v[i + 1])
    /\ Len(probe.out) < PreviewLimit
    /\ probe.out # <<>>

\* min(MAX_DELAY_MS, MIN_DELAY_MS * 2^(n - 1)) for n >= 1.
C18_ClampedBase(n) ==
    IF \E e \in 0..20 : e <= n - 1 /\ MIN_DELAY_MS * 2 ^ e >= MAX_DELAY_MS
    THEN MAX_DELAY_MS
    ELSE MIN_DELAY_MS * 2 ^ (n - 1)

\* C18: backoffDelay(0) is 0, and for every attempt n >= 1 and every jitter
\* draw backoffDelay(n) lies between 0.9 c and 1.1 c, where c is
\* min(MAX_DELAY_MS, MIN_DELAY_MS * 2^(n - 1)).
C18_BackoffRange ==
    (probe.kind = "backoff" /\ probe.done) =>
        IF probe.attempt = 0 THEN probe.out = Num(0)
        ELSE /\ probe.out.kind = "number"
             /\ 9 * C18_ClampedBase(probe.attempt) <= 10 * probe.out.v
             /\ 10 * probe.out.v <= 11 * C18_ClampedBase(probe.attempt)

\* C19: for every attempt n >= 0 and every jitter draw, backoffDelay(n) is a
\* number between 0 and MAX_DELAY_MS.
C19_BackoffCeiling ==
    (probe.kind = "backoff" /\ probe.done) =>
        /\ probe.out.kind = "number"
        /\ 0 <= probe.out.v
        /\ probe.out.v <= MAX_DELAY_MS

\* C20: between a session end or connect failure and the next connection
\* attempt there is one wait: when the reconnect timer set at that end fires
\* (lines 176-179, 191-194) and stopped is not set, the invocation it starts
\* goes on to connect without a second wait.
C20_SingleWait ==
    [][\A k \in timers :
          (TimerFire(k) /\ ~stopped) =>
              calls'[Len(calls')].pc = "handshake"]_vars

\* C21: whenever a socket is open, currentSocket is that socket (so that a
\* stop at that moment closes it), and the close event of a socket other
\* than the current one leaves currentSocket as it was.
C21_HandleAccuracy ==
    /\ [](\A c \in Ids : calls[c].pc = "open" => currentSocket = c)
    /\ [][\A c \in Ids :
            (CloseEvent(c) /\ currentSocket # c) =>
                currentSocket' = currentSocket]_vars

====
